---- MODULE Spec2Model ----
(***************************************************************************)
(* zcash-radio scanner (src/src/lib.rs): the video-id normalizer, the      *)
(* first-seen-wins dedup fold over forum posts, and the tip resolver with  *)
(* its per-author file cache, retry wrapper and bounded fan-out.           *)
(*                                                                         *)
(* Text is a sequence of one-character strings, so that parsing, substring *)
(* tests and formatting are computed and not assumed.  An Option<T> is a   *)
(* sequence of length 0 (None) or 1 (Some).                                *)
(***************************************************************************)
EXTENDS Integers, Sequences, FiniteSets, TLC

VARIABLES
    \* --- normalizer harness (extract_video_id applied to one href)
    gen,        \* the pieces the href under test was rendered from
    href,       \* the href handed to extract_video_id
    xdone,      \* TRUE once extract_video_id has returned
    xresult,    \* Option<String>: what extract_video_id returned
    \* --- process_posts
    posts,      \* the input slice of Post
    denylist,   \* the denylist handed to process_posts
    pi,         \* index of the post the outer loop is at (Len(posts)+1: returned)
    ai,         \* index of the next anchor of posts[pi] (0: post not yet opened)
    map,        \* HashMap<String, VideoEntry>, as a function on its key set
    \* --- run: topic fetch, tip resolution, merge, persist
    env,        \* what the forum, the profile service and the file system may answer
    now,        \* now_timestamp(): the wall clock, in seconds
    cache,      \* the files under CACHE_DIR, by path
    rpc,        \* where run() is: "fetch", "processing", "resolving", "done", "failed"
    task,       \* the fetch_tip_info_with_cache futures, by username
    artifact,   \* Option: the map serialized to out_path
    rret,       \* Option<Result<usize>>: what run() returned
    \* --- the extraction pass, run again on the same input
    outs,       \* what each pass so far produced: the map and its serialization
    finals,     \* the final map of each run() so far, for runs started alike
    \* --- one call of get_with_retries
    gw          \* its `attempt`, the requests sent, the answers, the sleeps, the return

xvars == <<gen, href, xdone, xresult>>
pvars == <<posts, denylist, pi, ai, map>>
tvars == <<env, now, cache, rpc, task, artifact, rret>>
rvars == <<outs, finals, gw>>
vars == <<xvars, pvars, tvars, rvars>>

None == <<>>
Some(x) == <<x>>
IsSome(o) == Len(o) = 1
Unwrap(o) == o[1]

\* ------------------------------------------------------------------ text
LowerAlpha == <<"a","b","c","d","e","f","g","h","i","j","k","l","m","n","o","p","q","r","s","t","u","v","w","x","y","z">>
UpperAlpha == <<"A","B","C","D","E","F","G","H","I","J","K","L","M","N","O","P","Q","R","S","T","U","V","W","X","Y","Z">>
DigitChars == <<"0","1","2","3","4","5","6","7","8","9">>

Range(s) == {s[i] : i \in 1..Len(s)}

IsAsciiAlpha(c) == c \in Range(LowerAlpha) \cup Range(UpperAlpha)
IsAsciiDigit(c) == c \in Range(DigitChars)
IsAsciiAlphanumeric(c) == IsAsciiAlpha(c) \/ IsAsciiDigit(c)

\* char::to_lowercase on the ASCII range
ToLowerChar(c) ==
    IF c \in Range(UpperAlpha)
    THEN LowerAlpha[CHOOSE i \in 1..26 : UpperAlpha[i] = c]
    ELSE c

\* str::to_lowercase
ToLowercase(s) == [i \in 1..Len(s) |-> ToLowerChar(s[i])]

\* str::contains(&str)
Contains(s, sub) ==
    \E i \in 1..(Len(s) - Len(sub) + 1) : SubSeq(s, i, i + Len(sub) - 1) = sub

\* str::starts_with / str::ends_with
StartsWith(s, pre) == Len(pre) <= Len(s) /\ SubSeq(s, 1, Len(pre)) = pre
EndsWith(s, suf) ==
    Len(suf) <= Len(s) /\ SubSeq(s, Len(s) - Len(suf) + 1, Len(s)) = suf

\* index of the first character of s that lies in cs, or Len(s)+1
FirstOf(s, cs) ==
    IF \E i \in 1..Len(s) : s[i] \in cs
    THEN CHOOSE i \in 1..Len(s) : s[i] \in cs /\ \A j \in 1..(i-1) : s[j] \notin cs
    ELSE Len(s) + 1

\* index of the last character of s that lies in cs, or 0
LastOf(s, cs) ==
    IF \E i \in 1..Len(s) : s[i] \in cs
    THEN CHOOSE i \in 1..Len(s) :
            s[i] \in cs /\ \A j \in (i+1)..Len(s) : s[j] \notin cs
    ELSE 0

Drop(s, n) == SubSeq(s, n + 1, Len(s))
Take(s, n) == SubSeq(s, 1, n)

\* str::split(ch).next(): the text before the first ch
FirstField(s, ch) == Take(s, FirstOf(s, {ch}) - 1)

\* str::split(ch) collected
RECURSIVE Split(_, _)
Split(s, ch) ==
    LET k == FirstOf(s, {ch})
    IN  IF k > Len(s) THEN <<s>>
        ELSE <<Take(s, k - 1)>> \o Split(Drop(s, k), ch)

\* ---------------------------------------------------------- Url::parse
\* The url crate's parser on the part of the URL syntax the scanner reads:
\* scheme, authority (userinfo, host, port), path, query; the fragment is
\* dropped.  Percent-escapes, dot-segments and backslashes do not occur in
\* the hrefs enumerated below.
SpecialSchemes ==
    { <<"h","t","t","p">>, <<"h","t","t","p","s">>, <<"f","t","p">>,
      <<"w","s">>, <<"w","s","s">> }

IsSchemeChar(c) == IsAsciiAlphanumeric(c) \/ c \in {"+", "-", "."}

\* length of the scheme of s (the text before the first ':'), 0 when s has none
SchemeLen(s) ==
    LET k == FirstOf(s, {":"})
    IN  IF /\ k <= Len(s)
           /\ k > 1
           /\ IsAsciiAlpha(s[1])
           /\ \A i \in 1..(k-1) : IsSchemeChar(s[i])
        THEN k - 1
        ELSE 0

StripLeadingSlashes(s) ==
    LET k == IF \E i \in 1..Len(s) : s[i] # "/"
             THEN CHOOSE i \in 1..Len(s) : s[i] # "/" /\ \A j \in 1..(i-1) : s[j] = "/"
             ELSE Len(s) + 1
    IN  Drop(s, k - 1)

UrlError == [ok |-> FALSE, host |-> None, path |-> <<>>, query |-> None]

\* authority -> Option<host>, None standing for a parse error (bad port, empty host)
ParseAuthority(auth) ==
    LET at == LastOf(auth, {"@"})
        hostport == Drop(auth, at)
        colon == FirstOf(hostport, {":"})
        h == Take(hostport, colon - 1)
        port == Drop(hostport, colon)
    IN  IF h = <<>> THEN None
        ELSE IF colon <= Len(hostport) /\ \E i \in 1..Len(port) : ~IsAsciiDigit(port[i])
        THEN None
        ELSE Some(ToLowercase(h))

\* what follows the authority: path, then '?' query, then '#' fragment
ParsePathQuery(rest, special) ==
    LET pend == FirstOf(rest, {"?", "#"})
        rawpath == Take(rest, pend - 1)
        path == IF rawpath = <<>> /\ special THEN <<"/">> ELSE rawpath
        after == Drop(rest, pend - 1)
        query == IF after # <<>> /\ after[1] = "?"
                 THEN Some(FirstField(Drop(after, 1), "#"))
                 ELSE None
    IN  [path |-> path, query |-> query]

ParseUrl(s) ==
    LET n == SchemeLen(s)
        scheme == ToLowercase(Take(s, n))
        special == scheme \in SpecialSchemes
        afterScheme == Drop(s, n + 1)
        hasAuthority == special \/ StartsWith(afterScheme, <<"/","/">>)
        body == IF special THEN StripLeadingSlashes(afterScheme) ELSE Drop(afterScheme, 2)
        aend == FirstOf(body, {"/", "?", "#"})
        host == ParseAuthority(Take(body, aend - 1))
        pq == ParsePathQuery(Drop(body, aend - 1), special)
        opaque == ParsePathQuery(afterScheme, FALSE)
    IN  IF n = 0 THEN UrlError                  \* RelativeUrlWithoutBase
        ELSE IF ~hasAuthority
        THEN [ok |-> TRUE, host |-> None, path |-> opaque.path, query |-> opaque.query]
        ELSE IF host = None THEN UrlError       \* EmptyHost / InvalidPort
        ELSE [ok |-> TRUE, host |-> host, path |-> pq.path, query |-> pq.query]

\* Url::path_segments().next(): the first segment of a path that starts with '/'
FirstPathSegment(path) ==
    IF path # <<>> /\ path[1] = "/"
    THEN Some(FirstField(Drop(path, 1), "/"))
    ELSE None

\* form_urlencoded decoding of one name or value: '+' is a space
FormDecode(s) == [i \in 1..Len(s) |-> IF s[i] = "+" THEN " " ELSE s[i]]

\* Url::query_pairs(): the non-empty '&' fields, each cut at its first '='
QueryPairs(query) ==
    LET fields == IF IsSome(query) THEN Split(Unwrap(query), "&") ELSE <<>>
        kept == SelectSeq(fields, LAMBDA f : f # <<>>)
    IN  [i \in 1..Len(kept) |->
            LET eq == FirstOf(kept[i], {"="})
            IN  <<FormDecode(Take(kept[i], eq - 1)), FormDecode(Drop(kept[i], eq))>>]

\* query_pairs().find(|(k, _)| k == "v").map(|(_, v)| v)
FindQueryV(query) ==
    LET pairs == QueryPairs(query)
        hits == SelectSeq(pairs, LAMBDA p : p[1] = <<"v">>)
    IN  IF hits = <<>> THEN None ELSE Some(hits[1][2])

\* ------------------------------------------------------- the normalizer
YOUTUBE_ID_LEN == 11

is_valid_youtube_id(id) ==
    /\ Len(id) = YOUTUBE_ID_LEN
    /\ \A i \in 1..Len(id) : IsAsciiAlphanumeric(id[i]) \/ id[i] \in {"-", "_"}

S_youtu_be == <<"y","o","u","t","u",".","b","e">>
S_youtube_com == <<"y","o","u","t","u","b","e",".","c","o","m">>
S_watch == <<"/","w","a","t","c","h">>
S_shorts == <<"/","s","h","o","r","t","s","/">>
S_embed == <<"/","e","m","b","e","d","/">>
S_live == <<"/","l","i","v","e","/">>

\* the text after the /shorts/, /embed/ or /live/ prefix of the path
PathRest(path) ==
    IF StartsWith(path, S_shorts) THEN Some(Drop(path, Len(S_shorts)))
    ELSE IF StartsWith(path, S_embed) THEN Some(Drop(path, Len(S_embed)))
    ELSE IF StartsWith(path, S_live) THEN Some(Drop(path, Len(S_live)))
    ELSE None

OptionIfValid(cand) ==
    IF IsSome(cand) /\ is_valid_youtube_id(Unwrap(cand)) THEN cand ELSE None

\* extract_video_id without `rest.split('/').next()`: the whole rest is the candidate
extract_video_id_no_split(h) ==
    LET u == ParseUrl(h)
        host == IF IsSome(u.host) THEN ToLowercase(Unwrap(u.host)) ELSE <<>>
        is_youtube == host = S_youtu_be \/ EndsWith(host, S_youtube_com)
        rest == PathRest(u.path)
    IN  IF ~u.ok \/ u.host = None THEN None
        ELSE IF ~is_youtube THEN None
        ELSE IF host = S_youtu_be THEN OptionIfValid(FirstPathSegment(u.path))
        ELSE IF u.path = S_watch THEN OptionIfValid(FindQueryV(u.query))
        ELSE IF IsSome(rest) THEN OptionIfValid(rest)
        ELSE None

extract_video_id(h) ==
    LET u == ParseUrl(h)
        host == IF IsSome(u.host) THEN ToLowercase(Unwrap(u.host)) ELSE <<>>
        is_youtube == host = S_youtu_be \/ EndsWith(host, S_youtube_com)
        rest == PathRest(u.path)
    IN  IF ~u.ok \/ u.host = None THEN None
        ELSE IF ~is_youtube THEN None
        ELSE IF host = S_youtu_be THEN OptionIfValid(FirstPathSegment(u.path))
        ELSE IF u.path = S_watch THEN OptionIfValid(FindQueryV(u.query))
        ELSE IF IsSome(rest) THEN OptionIfValid(Some(FirstField(Unwrap(rest), "/")))
        ELSE None

\* ------------------------------------------------ normalizer harness
\* The hrefs under test are rendered from pieces; what each piece is (an
\* absolute http(s) scheme, a YouTube host, a well-formed id) is fixed by
\* the table that lists it, not computed by the code under test.
Schemes ==
    { [text |-> <<"h","t","t","p","s",":","/","/">>, abs |-> TRUE],
      [text |-> <<"h","t","t","p",":","/","/">>, abs |-> TRUE],
      [text |-> <<"H","T","T","P","S",":","/","/">>, abs |-> TRUE],
      [text |-> <<>>, abs |-> FALSE],
      [text |-> <<"/","/">>, abs |-> FALSE],
      [text |-> <<"m","a","i","l","t","o",":">>, abs |-> FALSE] }

Hosts ==
    { [text |-> <<"y","o","u","t","u",".","b","e">>, kind |-> "youtu.be"],
      [text |-> <<"Y","O","U","T","U",".","B","E">>, kind |-> "youtu.be"],
      [text |-> <<"y","o","u","t","u","b","e",".","c","o","m">>, kind |-> "youtube"],
      [text |-> <<"w","w","w",".","y","o","u","t","u","b","e",".","c","o","m">>, kind |-> "youtube"],
      [text |-> <<"W","W","W",".","Y","o","u","T","u","b","e",".","c","o","m">>, kind |-> "youtube"],
      [text |-> <<"m",".","y","o","u","t","u","b","e",".","c","o","m",":","4","4","3">>, kind |-> "youtube"],
      [text |-> <<"u","s","e","r","@","m","u","s","i","c",".","y","o","u","t","u","b","e",".","c","o","m">>, kind |-> "youtube"],
      [text |-> <<"n","o","t","y","o","u","t","u","b","e",".","c","o","m">>, kind |-> "other"],
      [text |-> <<"e","x","a","m","p","l","e",".","c","o","m">>, kind |-> "other"],
      [text |-> <<"w","w","w",".","y","o","u","t","u",".","b","e">>, kind |-> "other"],
      [text |-> <<"y","o","u","t","u","b","e",".","c","o","m",".","e","v","i","l",".","n","e","t">>, kind |-> "other"] }

Ids ==
    { [text |-> <<"d","Q","w","4","w","9","W","g","X","c","Q">>, valid |-> TRUE],
      [text |-> <<"a","-","b","_","c","-","d","_","e","-","f">>, valid |-> TRUE],
      [text |-> <<"S","H","O","R","T">>, valid |-> FALSE],
      [text |-> <<"A","A","A","A","A","A","A","A","A","A">>, valid |-> FALSE],
      [text |-> <<"A","A","A","A","A","A","A","A","A","A","A","A">>, valid |-> FALSE],
      [text |-> <<"A","A","A","A","A","A","A","A","A","A","$">>, valid |-> FALSE] }

PathShapes == {"short", "shorts", "embed", "live", "user", "root"}
WatchShapes == {"watch", "watch_pre", "watch_dup", "watch_slash", "watch_nov"}
Tails == {"none", "sub", "query", "frag"}

ShapeText(shape, id) ==
    CASE shape = "short" -> <<"/">> \o id
      [] shape = "shorts" -> S_shorts \o id
      [] shape = "embed" -> S_embed \o id
      [] shape = "live" -> S_live \o id
      [] shape = "user" -> <<"/","u","s","e","r","/">> \o id
      [] shape = "root" -> <<>>
      [] shape = "watch" -> S_watch \o <<"?","v","=">> \o id
      [] shape = "watch_pre" -> S_watch \o <<"?","t","=","4","2","&","v","=">> \o id
      [] shape = "watch_dup" -> S_watch \o <<"?","v","=","S","H","O","R","T","&","v","=">> \o id
      [] shape = "watch_slash" -> S_watch \o <<"/","?","v","=">> \o id
      [] shape = "watch_nov" -> S_watch \o <<"?","l","i","s","t","=">> \o id

TailText(shape, tail) ==
    CASE tail = "none" -> <<>>
      [] tail = "sub" -> <<"/","e","x","t","r","a">>
      [] tail = "query" -> IF shape \in WatchShapes THEN <<"&","t","=","4","2">> ELSE <<"?","f","e","a","t","u","r","e","=","s","h","a","r","e">>
      [] tail = "frag" -> <<"#","t","=","4","2">>

Render(g) ==
    g.scheme.text \o g.host.text \o ShapeText(g.shape, g.id.text) \o TailText(g.shape, g.tail)

GenPool ==
    [scheme : Schemes, host : Hosts, id : Ids, shape : PathShapes \cup WatchShapes, tail : Tails]

NoGen == [scheme |-> [text |-> <<>>, abs |-> FALSE], host |-> [text |-> <<>>, kind |-> "other"],
          id |-> [text |-> <<>>, valid |-> FALSE], shape |-> "root", tail |-> "none"]

XInit ==
    /\ gen \in GenPool
    /\ href = Render(gen)
    /\ xdone = FALSE
    /\ xresult = None

XIdle ==
    /\ gen = NoGen
    /\ href = <<>>
    /\ xdone = FALSE
    /\ xresult = None

\* one call of extract_video_id(href)
ExtractVideoId ==
    /\ ~xdone
    /\ gen # NoGen
    /\ xresult' = extract_video_id(href)
    /\ xdone' = TRUE
    /\ UNCHANGED <<gen, href>>
    /\ UNCHANGED <<rvars, pvars, tvars>>

\* --------------------------------------------------------- process_posts
\* i64's Display: decimal digits, '-' in front of a negative number
RECURSIVE DecimalDigits(_)
DecimalDigits(n) ==
    IF n < 10 THEN <<DigitChars[n + 1]>>
    ELSE DecimalDigits(n \div 10) \o <<DigitChars[(n % 10) + 1]>>

ToDecimal(n) == IF n < 0 THEN <<"-">> \o DecimalDigits(0 - n) ELSE DecimalDigits(n)

\* format!("{}/{}", topic_url, p.post_number)
FormatPostUrl(topic_url, post_number) == topic_url \o <<"/">> \o ToDecimal(post_number)

S_youtu == <<"y","o","u","t","u">>

\* the two substring filters in front of the normalizer
PostFilter(p) == Contains(p.cooked, S_youtu)
HrefFilter(h) == Contains(h, S_youtu_be) \/ Contains(h, S_youtube_com)

EmptyMap == [k \in {} |-> None]

NewVideoEntry(video_id, topic_url, p) ==
    [ video_id |-> video_id,
      source_post_url |-> FormatPostUrl(topic_url, p.post_number),
      username |-> p.username,
      tip_unified_address |-> None,
      tip_has_transparent |-> None ]

\* map.insert(video_id, e) in place of the entry API: the last sighting wins
EntryOrInsert_overwrite(m, video_id, e) ==
    [k \in DOMAIN m \cup {video_id} |-> IF k = video_id THEN e ELSE m[k]]

\* map.entry(video_id): Vacant inserts, Occupied leaves the entry alone
EntryOrInsert(m, video_id, e) ==
    IF video_id \in DOMAIN m THEN m
    ELSE [k \in DOMAIN m \cup {video_id} |-> IF k = video_id THEN e ELSE m[k]]

\* the inner loop's body without the `denylist.contains` test
ProcessAnchor_no_denylist(m, p, a, topic_url, deny) ==
    LET vid == extract_video_id(Unwrap(a))
    IN  IF ~IsSome(a) THEN m
        ELSE IF ~HrefFilter(Unwrap(a)) THEN m
        ELSE IF ~IsSome(vid) THEN m
        ELSE EntryOrInsert(m, Unwrap(vid), NewVideoEntry(Unwrap(vid), topic_url, p))

\* the body of the inner loop for one anchor a (its href attribute, an Option)
ProcessAnchor(m, p, a, topic_url, deny) ==
    LET vid == extract_video_id(Unwrap(a))
    IN  IF ~IsSome(a) THEN m
        ELSE IF ~HrefFilter(Unwrap(a)) THEN m
        ELSE IF ~IsSome(vid) THEN m
        ELSE IF Unwrap(vid) \in deny THEN m
        ELSE EntryOrInsert(m, Unwrap(vid), NewVideoEntry(Unwrap(vid), topic_url, p))

\* the inner loop over the anchors of one post, from anchor k on
RECURSIVE ProcessAnchorsFrom(_, _, _, _, _)
ProcessAnchorsFrom(m, p, k, topic_url, deny) ==
    IF k > Len(p.anchors) THEN m
    ELSE ProcessAnchorsFrom(ProcessAnchor(m, p, p.anchors[k], topic_url, deny),
                            p, k + 1, topic_url, deny)

\* the outer loop of process_posts, from post k on
RECURSIVE ProcessPostsFrom(_, _, _, _, _)
ProcessPostsFrom(m, ps, k, topic_url, deny) ==
    IF k > Len(ps) THEN m
    ELSE ProcessPostsFrom(
            IF PostFilter(ps[k]) THEN ProcessAnchorsFrom(m, ps[k], 1, topic_url, deny) ELSE m,
            ps, k + 1, topic_url, deny)

process_posts(ps, topic_url, deny) == ProcessPostsFrom(EmptyMap, ps, 1, topic_url, deny)

\* ---- inputs of the fold
TopicUrl == <<"h","t","t","p","s",":","/","/","f","o","r","u","m">>

IdA == <<"A","A","A","A","A","A","A","A","A","A","A">>
IdB == <<"B","B","B","B","B","B","B","B","B","B","B">>
IdC == <<"G","7","g","4","4","B","c","a","1","U","Q">>

HrefShortA == <<"h","t","t","p","s",":","/","/">> \o S_youtu_be \o <<"/">> \o IdA
HrefWatchB == <<"h","t","t","p","s",":","/","/","w","w","w",".">> \o S_youtube_com \o S_watch \o <<"?","v","=">> \o IdB
HrefShortB == <<"h","t","t","p","s",":","/","/">> \o S_youtu_be \o <<"/">> \o IdB
HrefUpperC == <<"h","t","t","p","s",":","/","/">> \o <<"Y","O","U","T","U",".","B","E">> \o <<"/">> \o IdC
HrefEmbedC == <<"h","t","t","p","s",":","/","/","w","w","w",".">> \o S_youtube_com \o S_embed \o IdC
HrefExample == <<"h","t","t","p","s",":","/","/","e","x","a","m","p","l","e",".","c","o","m","/","v","i","d","e","o">>
HrefInvalid == <<"h","t","t","p","s",":","/","/">> \o S_youtu_be \o <<"/","S","H","O","R","T">>

\* Html rendering of one anchor; Html::parse_fragment + select("a") + attr("href")
\* reads back the href (the hrefs hold no character that HTML escapes)
AnchorHtml(a) ==
    IF IsSome(a) THEN <<"<","a"," ","h","r","e","f","=","'">> \o Unwrap(a) \o <<"'",">","v","<","/","a",">">>
    ELSE <<"<","a",">","v","<","/","a",">">>

RECURSIVE ConcatAll(_)
ConcatAll(ss) == IF ss = <<>> THEN <<>> ELSE Head(ss) \o ConcatAll(Tail(ss))

CookedOf(anchors) == ConcatAll([i \in 1..Len(anchors) |-> AnchorHtml(anchors[i])])

\* the anchor lists of the posts enumerated: a post's cooked HTML is their rendering
AnchorLists ==
    { <<Some(HrefShortA)>>,
      <<Some(HrefWatchB)>>,
      <<Some(HrefShortB), Some(HrefShortA)>>,
      <<None, Some(HrefInvalid), Some(HrefEmbedC)>>,
      <<Some(HrefUpperC)>>,
      <<Some(HrefExample)>> }

Alice == <<"a","l","i","c","e">>
Bob == <<"b","o","b">>
Usernames == {Alice, Bob}

MaxPosts == 3
PostNumberBase == 8

PostAt(i, username, anchors) ==
    [ post_number |-> PostNumberBase + i,
      username |-> username,
      cooked |-> CookedOf(anchors),
      anchors |-> anchors ]

PostSeqs ==
    UNION { { [i \in 1..n |-> PostAt(i, us[i], as[i])] :
                us \in [1..n -> Usernames], as \in [1..n -> AnchorLists] } : n \in 0..MaxPosts }

Denylists == { {}, {IdA}, {IdA, IdC} }

PInit ==
    /\ posts \in PostSeqs
    /\ denylist \in Denylists
    /\ pi = 1
    /\ ai = 0
    /\ map = EmptyMap

PIdle ==
    /\ posts = <<>>
    /\ denylist = {}
    /\ pi = 1
    /\ ai = 0
    /\ map = EmptyMap

\* `if !p.cooked.contains("youtu") { continue; }`
SkipPost ==
    /\ pi <= Len(posts)
    /\ ~PostFilter(posts[pi])
    /\ pi' = pi + 1
    /\ UNCHANGED <<posts, denylist, ai, map>>
    /\ UNCHANGED <<rvars, xvars, tvars>>

\* one iteration of `for a in doc.select(&*A_SELECTOR)`
StepAnchor ==
    /\ pi <= Len(posts)
    /\ PostFilter(posts[pi])
    /\ ai < Len(posts[pi].anchors)
    /\ map' = ProcessAnchor(map, posts[pi], posts[pi].anchors[ai + 1], TopicUrl, denylist)
    /\ ai' = ai + 1
    /\ UNCHANGED <<posts, denylist, pi>>
    /\ UNCHANGED <<rvars, xvars, tvars>>

\* the anchors of the post are exhausted: on to the next post
EndPost ==
    /\ pi <= Len(posts)
    /\ PostFilter(posts[pi])
    /\ ai = Len(posts[pi].anchors)
    /\ pi' = pi + 1
    /\ ai' = 0
    /\ UNCHANGED <<posts, denylist, map>>
    /\ UNCHANGED <<rvars, xvars, tvars>>

\* ============================================================ tip cache
CACHE_TTL_SECS == 86400
PROFILE_CONCURRENCY == 3
RETRY_ATTEMPTS == 3

CACHE_DIR == <<".","/","t","a","r","g","e","t","/","p","r","o","f","i","l","e","_","c","a","c","h","e">>

\* cache_path: every character that is not ASCII alphanumeric becomes '_'
Sanitize(username) ==
    [i \in 1..Len(username) |->
        IF IsAsciiAlphanumeric(username[i]) THEN username[i] ELSE "_"]

cache_path(username) == CACHE_DIR \o <<"/">> \o Sanitize(username) \o <<".","j","s","o","n">>

\* what a cache file holds: nothing (no file), bytes that do not parse as a
\* CachedTipEntry, or the serialization of an entry; or the path cannot be read
\* (a directory, no permission)
AbsentFile == [kind |-> "absent"]
CorruptFile == [kind |-> "corrupt"]
UnreadableFile == [kind |-> "unreadable"]
EntryFile(cached_at, addr, has_transparent) ==
    [ kind |-> "entry", cached_at |-> cached_at,
      tip_unified_address |-> addr, tip_has_transparent |-> has_transparent ]

ReadEntry_corrupt_is_negative(file) ==
    IF file.kind = "entry" THEN Some(file)
    ELSE IF file.kind = "absent" THEN None
    ELSE Some([kind |-> "entry", cached_at |-> 200000,
               tip_unified_address |-> None, tip_has_transparent |-> FALSE])

\* tokio_fs::read(path).await.ok()? then serde_json::from_slice(&data).ok()?
ReadEntry(file) == IF file.kind = "entry" THEN Some(file) ELSE None

\* u64::saturating_sub
SaturatingSub(a, b) == IF a >= b THEN a - b ELSE 0

cache_entry_fresh_always(entry, t) == TRUE

cache_entry_fresh_strict(entry, t) == SaturatingSub(t, entry.cached_at) < CACHE_TTL_SECS

cache_entry_fresh(entry, t) == SaturatingSub(t, entry.cached_at) <= CACHE_TTL_SECS

\* load_cached_tip: Some(entry) only for a file that reads, parses and is fresh
load_cached_tip(files, username, t) ==
    LET e == ReadEntry(files[cache_path(username)])
    IN  IF IsSome(e) /\ cache_entry_fresh(Unwrap(e), t) THEN e ELSE None

\* ------------------------------------------------- address search, validation
TipInfo(address, has_transparent) ==
    [address |-> address, has_transparent |-> has_transparent]

IsUaChar(c) == IsAsciiDigit(c) \/ ToLowerChar(c) \in Range(LowerAlpha)

\* length of the run of [0-9a-z] characters (case-insensitive) of text from i on
RECURSIVE UaRun(_, _)
UaRun(text, i) ==
    IF i <= Len(text) /\ IsUaChar(text[i]) THEN 1 + UaRun(text, i + 1) ELSE 0

\* UA_REGEX (?i)u1[0-9a-z]{10,} matches at position i
UaMatchAt(text, i) ==
    /\ i + 1 <= Len(text)
    /\ ToLowerChar(text[i]) = "u"
    /\ text[i + 1] = "1"
    /\ UaRun(text, i + 2) >= 10

\* UA_REGEX.find(text).map(|m| m.as_str().to_lowercase()): leftmost, greedy
extract_unified_address(text) ==
    IF \E i \in 1..Len(text) : UaMatchAt(text, i)
    THEN LET i == CHOOSE k \in 1..Len(text) :
                    UaMatchAt(text, k) /\ \A j \in 1..(k-1) : ~UaMatchAt(text, j)
         IN  Some(ToLowercase(SubSeq(text, i, i + 1 + UaRun(text, i + 2))))
    ELSE None

AddrShielded == <<"u","1","s","h","i","e","l","d","e","d","0","0">>
AddrOrchard == <<"u","1","o","r","c","h","a","r","d","0","0","0">>
AddrP2pkh == <<"u","1","w","i","t","h","p","2","p","k","h","0">>
AddrP2sh == <<"u","1","w","i","t","h","p","2","s","h","0","0">>
AddrTestnet == <<"u","1","t","e","s","t","n","e","t","0","0","0">>
AddrGarbage == <<"u","1","g","a","r","b","a","g","e","0","0","0">>

\* unified::Address::decode (zcash_address): the network and the receivers of
\* the strings that decode; every other string is a decoding error
DecodeOk(network, receivers) == [ok |-> TRUE, network |-> network, receivers |-> receivers]
Decode(candidate) ==
    CASE candidate = AddrShielded -> DecodeOk("Main", {"Orchard", "Sapling"})
      [] candidate = AddrOrchard -> DecodeOk("Main", {"Orchard"})
      [] candidate = AddrP2pkh -> DecodeOk("Main", {"Orchard", "P2pkh"})
      [] candidate = AddrP2sh -> DecodeOk("Main", {"Sapling", "P2sh"})
      [] candidate = AddrTestnet -> DecodeOk("Test", {"Orchard"})
      [] OTHER -> [ok |-> FALSE, network |-> "", receivers |-> {}]

validate_unified_address_keeps_transparent(candidate) ==
    LET d == Decode(candidate)
        has_transparent == d.receivers \cap {"P2pkh", "P2sh"} # {}
    IN  IF ~d.ok THEN None
        ELSE IF d.network # "Main" THEN None
        ELSE Some(TipInfo(candidate, has_transparent))

validate_unified_address(candidate) ==
    LET d == Decode(candidate)
        has_transparent == d.receivers \cap {"P2pkh", "P2sh"} # {}
    IN  IF ~d.ok THEN None
        ELSE IF d.network # "Main" THEN None
        ELSE IF has_transparent THEN None
        ELSE Some(TipInfo(candidate, has_transparent))

\* serde_json::Value: a string, an array, an object (its values, in map order)
\* or a scalar
JStr(s) == [t |-> "str", s |-> s, items |-> <<>>]
JArr(items) == [t |-> "arr", s |-> <<>>, items |-> items]
JObj(values) == [t |-> "obj", s |-> <<>>, items |-> values]
JNum == [t |-> "num", s |-> <<>>, items |-> <<>>]

\* find_map over the values of an array or object: the first Some
RECURSIVE FindMapJson(_, _)
RECURSIVE find_address_in_json(_)
FindMapJson(items, k) ==
    IF k > Len(items) THEN None
    ELSE LET r == find_address_in_json(items[k])
         IN  IF IsSome(r) THEN r ELSE FindMapJson(items, k + 1)

find_address_in_json(value) ==
    IF value.t = "str" THEN extract_unified_address(value.s)
    ELSE IF value.t \in {"arr", "obj"} THEN FindMapJson(value.items, 1)
    ELSE None

\* ------------------------------------------------------ the retry wrapper
NetErr == [kind |-> "neterr", status |-> 0, body |-> [ok |-> FALSE]]
Resp(status, body) == [kind |-> "resp", status |-> status, body |-> body]
NoBody == [ok |-> FALSE]
Body(content) == [ok |-> TRUE, content |-> content]

IsSuccess(status) == status >= 200 /\ status <= 299
IsServerError(status) == status >= 500 /\ status <= 599

should_retry_status_any_error(status) == status >= 400

should_retry_status(status) == IsServerError(status) \/ status = 429

RETRY_BASE_DELAY_MS == 500

retry_delay_uncapped(attempt) == RETRY_BASE_DELAY_MS * (2 ^ attempt)

\* retry_delay: base * (1u32 << attempt.min(5)), in milliseconds; the shift is
\* by 5 at most, so it stays within the 32 bits
retry_delay(attempt) ==
    RETRY_BASE_DELAY_MS * (2 ^ (IF attempt < 5 THEN attempt ELSE 5))

RetriesAgain_never(r, attempt) == FALSE

\* get_with_retries, one turn of its loop: the attempt is number `attempt`
\* (from 0) and the request ended with r; TRUE when the loop sleeps and sends
\* again, FALSE when it returns r
RetriesAgain(r, attempt) ==
    IF r.kind = "resp"
    THEN should_retry_status(r.status) /\ attempt + 1 < RETRY_ATTEMPTS
    ELSE ~(attempt + 1 >= RETRY_ATTEMPTS)

\* Result<Option<TipInfo>>
Ok(v) == [ok |-> TRUE, value |-> v]
Err == [ok |-> FALSE, value |-> None]

\* if let Some(candidate) = .. { if let Some(tip) = validate(..) { return Ok(Some(tip)) } } Ok(None)
CandidateResult(candidate) ==
    IF IsSome(candidate) THEN Ok(validate_unified_address(Unwrap(candidate)))
    ELSE Ok(None)

\* fetch_tip_from_json after get_with_retries returned r
fetch_tip_from_json(r) ==
    IF r.kind = "neterr" THEN Err
    ELSE IF r.status = 404 THEN Ok(None)
    ELSE IF ~IsSuccess(r.status) THEN Err
    ELSE IF ~r.body.ok THEN Err
    ELSE CandidateResult(find_address_in_json(r.body.content))

\* fetch_tip_from_html after get_with_retries returned r
fetch_tip_from_html(r) ==
    IF r.kind = "neterr" THEN Err
    ELSE IF r.status = 404 THEN Ok(None)
    ELSE IF ~IsSuccess(r.status) THEN Err
    ELSE IF ~r.body.ok THEN Err
    ELSE CandidateResult(extract_unified_address(r.body.content))

\* ================================================================== run
\* str::trim on the whitespace the inputs use
RECURSIVE TrimStart(_)
TrimStart(s) == IF s # <<>> /\ Head(s) = " " THEN TrimStart(Tail(s)) ELSE s
RECURSIVE TrimEnd(_)
TrimEnd(s) == IF s # <<>> /\ s[Len(s)] = " " THEN TrimEnd(Take(s, Len(s) - 1)) ELSE s
Trim(s) == TrimEnd(TrimStart(s))

\* CURATION_DENYLIST: the ids of curation.txt
CURATION_DENYLIST == {IdC}

UsernamesOf_untrimmed(m) == { m[id].username : id \in DOMAIN m }

\* the distinct non-empty trimmed usernames of the map's entries
UsernamesOf(m) == { Trim(m[id].username) : id \in DOMAIN m } \ { <<>> }

NoResp == [kind |-> "none", status |-> 0, body |-> NoBody]
UnreadFile == [kind |-> "unread"]

\* one future of the stream: pc is "queued" (not yet polled), "load", "json",
\* "html", "store" or "done"; jtries/htries count the requests sent to the two
\* profile endpoints (the retry wrapper's `attempt` while it loops); jresp/hresp
\* are what get_with_retries returned; seen/seen_at are the file load_cached_tip
\* read and the clock when it did; store is how store_cached_tip ended
NewTask ==
    [ pc |-> "queued", jtries |-> 0, htries |-> 0, jresp |-> NoResp, hresp |-> NoResp,
      pending |-> None, result |-> None, seen |-> UnreadFile, seen_at |-> 0, store |-> "" ]

InFlight_none == {}

InFlight == { u \in DOMAIN task : task[u].pc \notin {"queued", "done"} }

\* entry.tip_unified_address.map(|addr| TipInfo { .. })
CachedResult(entry) ==
    IF IsSome(entry.tip_unified_address)
    THEN Some(TipInfo(Unwrap(entry.tip_unified_address), entry.tip_has_transparent))
    ELSE None

AfterRemote_cache_errors(t, res, clock) ==
    IF res.ok /\ IsSome(res.value)
    THEN [t EXCEPT !.pc = "store", !.result = res.value,
                   !.pending = Some(EntryFile(clock, Some(Unwrap(res.value).address),
                                              Unwrap(res.value).has_transparent))]
    ELSE [t EXCEPT !.pc = "store", !.result = None,
                   !.pending = Some(EntryFile(clock, None, FALSE))]

\* the match on fetch_tip_info_remote's result in fetch_tip_info_with_cache
AfterRemote(t, res, clock) ==
    IF ~res.ok THEN [t EXCEPT !.pc = "done", !.result = None]
    ELSE IF IsSome(res.value)
    THEN [t EXCEPT !.pc = "store", !.result = res.value,
                   !.pending = Some(EntryFile(clock, Some(Unwrap(res.value).address),
                                              Unwrap(res.value).has_transparent))]
    ELSE [t EXCEPT !.pc = "store", !.result = None,
                   !.pending = Some(EntryFile(clock, None, FALSE))]

\* fetch_tip_info_remote after fetch_tip_from_json returned res: Some(info) and
\* Err are returned, Ok(None) goes on to fetch_tip_from_html
AfterJson(t, res, clock) ==
    IF res.ok /\ ~IsSome(res.value) THEN [t EXCEPT !.pc = "html"]
    ELSE AfterRemote(t, res, clock)

\* run() up to process_posts: the topic request and its JSON body
FetchTopic ==
    /\ rpc = "fetch"
    /\ \E r \in env.topics :
          IF r.kind = "resp" /\ IsSuccess(r.status) /\ r.body.ok
          THEN /\ posts' = r.body.content
               /\ denylist' = CURATION_DENYLIST
               /\ pi' = 1
               /\ ai' = 0
               /\ map' = EmptyMap
               /\ rpc' = "processing"
               /\ rret' = None
          ELSE /\ rpc' = "failed"
               /\ rret' = Some(Err)
               /\ UNCHANGED pvars
    /\ UNCHANGED <<env, now, cache, task, artifact>>
    /\ UNCHANGED <<rvars, xvars>>

\* process_posts has returned: the username set, one future per username
CollectUsernames ==
    /\ rpc = "processing"
    /\ pi = Len(posts) + 1
    /\ task' = [u \in UsernamesOf(map) |-> NewTask]
    /\ rpc' = "resolving"
    /\ UNCHANGED <<env, now, cache, artifact, rret>>
    /\ UNCHANGED <<rvars, xvars, pvars>>

\* buffer_unordered polls one more future: the empty-handle guard, then the read
StartTask ==
    \E u \in DOMAIN task :
        /\ rpc = "resolving"
        /\ task[u].pc = "queued"
        /\ Cardinality(InFlight) < PROFILE_CONCURRENCY
        /\ task' = [task EXCEPT ![u].pc = IF u = <<>> THEN "done" ELSE "load"]
        /\ UNCHANGED <<env, now, cache, rpc, artifact, rret>>
        /\ UNCHANGED <<rvars, xvars, pvars>>

\* load_cached_tip returns: a fresh entry is the answer, anything else goes remote
LoadCache ==
    \E u \in DOMAIN task :
        /\ rpc = "resolving"
        /\ task[u].pc = "load"
        /\ LET e == load_cached_tip(cache, u, now)
               t == [task[u] EXCEPT !.seen = cache[cache_path(u)], !.seen_at = now]
           IN  task' = [task EXCEPT ![u] =
                    IF IsSome(e) THEN [t EXCEPT !.pc = "done", !.result = CachedResult(Unwrap(e))]
                    ELSE [t EXCEPT !.pc = "json"]]
        /\ UNCHANGED <<env, now, cache, rpc, artifact, rret>>
        /\ UNCHANGED <<rvars, xvars, pvars>>

\* one request of get_with_retries for /u/{username}.json and what follows it:
\* the backoff sleep and the next turn, or fetch_tip_from_json on the response
SendJson ==
    \E u \in DOMAIN task :
        /\ rpc = "resolving"
        /\ task[u].pc = "json"
        /\ \E r \in env.json[u] :
              LET t == [task[u] EXCEPT !.jtries = @ + 1]
              IN  task' = [task EXCEPT ![u] =
                      IF RetriesAgain(r, task[u].jtries) THEN t
                      ELSE AfterJson([t EXCEPT !.jresp = r], fetch_tip_from_json(r), now)]
        /\ UNCHANGED <<env, now, cache, rpc, artifact, rret>>
        /\ UNCHANGED <<rvars, xvars, pvars>>

\* one request of get_with_retries for /u/{username} and what follows it
SendHtml ==
    \E u \in DOMAIN task :
        /\ rpc = "resolving"
        /\ task[u].pc = "html"
        /\ \E r \in env.html[u] :
              LET t == [task[u] EXCEPT !.htries = @ + 1]
              IN  task' = [task EXCEPT ![u] =
                      IF RetriesAgain(r, task[u].htries) THEN t
                      ELSE AfterRemote([t EXCEPT !.hresp = r], fetch_tip_from_html(r), now)]
        /\ UNCHANGED <<env, now, cache, rpc, artifact, rret>>
        /\ UNCHANGED <<rvars, xvars, pvars>>

StoreCache_drops_result ==
    \E u \in DOMAIN task :
        /\ rpc = "resolving"
        /\ task[u].pc = "store"
        /\ \E o \in env.fs :
              /\ cache' = CASE o = "ok" -> [cache EXCEPT ![cache_path(u)] = Unwrap(task[u].pending)]
                            [] o = "failed" -> cache
                            [] o = "partial" -> [cache EXCEPT ![cache_path(u)] = CorruptFile]
              /\ task' = [task EXCEPT ![u].pc = "done", ![u].store = o,
                                      ![u].result = IF o = "ok" THEN @ ELSE None]
        /\ UNCHANGED <<env, now, rpc, artifact, rret>>
        /\ UNCHANGED <<rvars, xvars, pvars>>

\* store_cached_tip: the write lands, or create_dir_all / the open fails and the
\* file is as before, or the write fails after the file was truncated
StoreCache ==
    \E u \in DOMAIN task :
        /\ rpc = "resolving"
        /\ task[u].pc = "store"
        /\ \E o \in env.fs :
              /\ cache' = CASE o = "ok" -> [cache EXCEPT ![cache_path(u)] = Unwrap(task[u].pending)]
                            [] o = "failed" -> cache
                            [] o = "partial" -> [cache EXCEPT ![cache_path(u)] = CorruptFile]
              /\ task' = [task EXCEPT ![u].pc = "done", ![u].store = o]
        /\ UNCHANGED <<env, now, rpc, artifact, rret>>
        /\ UNCHANGED <<rvars, xvars, pvars>>

\* the tip_map of the collected profiles
TipMapOf(tasks) ==
    [u \in { v \in DOMAIN tasks : IsSome(tasks[v].result) } |-> Unwrap(tasks[u].result)]

Merge_untrimmed(m, tip_map) ==
    [id \in DOMAIN m |->
        IF m[id].username \in DOMAIN tip_map
        THEN [m[id] EXCEPT
                !.tip_unified_address = Some(tip_map[m[id].username].address),
                !.tip_has_transparent = Some(tip_map[m[id].username].has_transparent)]
        ELSE m[id]]

Merge_only_tipped(m, tip_map) ==
    [id \in { k \in DOMAIN m : Trim(m[k].username) \in DOMAIN tip_map } |->
        [m[id] EXCEPT
            !.tip_unified_address = Some(tip_map[Trim(m[id].username)].address),
            !.tip_has_transparent = Some(tip_map[Trim(m[id].username)].has_transparent)]]

\* `for entry in map.values_mut()`: the tip fields of the entries whose trimmed
\* username has a TipInfo
Merge(m, tip_map) ==
    [id \in DOMAIN m |->
        IF Trim(m[id].username) \in DOMAIN tip_map
        THEN [m[id] EXCEPT
                !.tip_unified_address = Some(tip_map[Trim(m[id].username)].address),
                !.tip_has_transparent = Some(tip_map[Trim(m[id].username)].has_transparent)]
        ELSE m[id]]

MergeAndPersist_early ==
    /\ rpc = "resolving"
    /\ map' = Merge(map, TipMapOf(task))
    /\ \E o \in env.out :
          IF o = "ok"
          THEN /\ artifact' = Some(map')
               /\ rret' = Some(Ok(Cardinality(DOMAIN map')))
               /\ rpc' = "done"
          ELSE /\ artifact' = artifact
               /\ rret' = Some(Err)
               /\ rpc' = "failed"
    /\ UNCHANGED <<env, now, cache, task>>
    /\ UNCHANGED <<rvars, xvars, posts, denylist, pi, ai>>

\* every future has completed: collect, merge, serialize, fs::write, return
MergeAndPersist ==
    /\ rpc = "resolving"
    /\ \A u \in DOMAIN task : task[u].pc = "done"
    /\ map' = Merge(map, TipMapOf(task))
    /\ \E o \in env.out :
          IF o = "ok"
          THEN /\ artifact' = Some(map')
               /\ rret' = Some(Ok(Cardinality(DOMAIN map')))
               /\ rpc' = "done"
          ELSE /\ artifact' = artifact
               /\ rret' = Some(Err)
               /\ rpc' = "failed"
    /\ UNCHANGED <<env, now, cache, task>>
    /\ UNCHANGED <<rvars, xvars, posts, denylist, pi, ai>>

MaxTicks == 1
StartTime == 200000

\* a second passes
Tick ==
    /\ rpc \in {"fetch", "processing", "resolving"}
    /\ now < StartTime + MaxTicks
    /\ now' = now + 1
    /\ UNCHANGED <<env, cache, rpc, task, artifact, rret>>
    /\ UNCHANGED <<rvars, xvars, pvars>>

\* ---- what the environment may answer
TextNone == <<"h","e","l","l","o"," ","z","c","a","s","h">>
TextOrchard == <<"t","i","p","s",":"," ","u","1","o","r","c","h","a","r","d","0","0","0"," ","(","z","e","c",")">>
TextP2sh == <<"<","p",">","u","1","w","i","t","h","p","2","s","h","0","0","<","/","p",">">>
TextMixedCase == <<"t","i","p"," ","U","1","S","h","i","e","l","d","e","d","0","0"," ","t","y">>

\* a body and, beside it, the candidate address its first match holds
Body2(content, cand) == [ok |-> TRUE, content |-> content, cand |-> cand]

JsonBodies ==
    { Body2(JObj(<<JNum, JStr(TextNone)>>), None),
      Body2(JObj(<<JNum, JObj(<<JStr(TextNone), JStr(TextMixedCase)>>)>>), Some(AddrShielded)),
      Body2(JObj(<<JStr(AddrP2pkh)>>), Some(AddrP2pkh)),
      Body2(JArr(<<JStr(AddrTestnet), JNum>>), Some(AddrTestnet)),
      Body2(JArr(<<JStr(AddrGarbage), JStr(AddrOrchard)>>), Some(AddrGarbage)) }

HtmlBodies ==
    { Body2(TextNone, None),
      Body2(TextOrchard, Some(AddrOrchard)),
      Body2(TextP2sh, Some(AddrP2sh)) }

Failures == {NetErr, Resp(500, NoBody), Resp(429, NoBody), Resp(404, NoBody), Resp(403, NoBody)}

JsonResponses == Failures \cup {Resp(200, NoBody)} \cup {Resp(200, b) : b \in JsonBodies}
HtmlResponses == Failures \cup {Resp(200, NoBody)} \cup {Resp(200, b) : b \in HtmlBodies}

ProfileHandles == {Alice, Bob}
CachePaths == {cache_path(u) : u \in ProfileHandles}

TopicOf(ps) == Resp(200, [ok |-> TRUE, content |-> ps])

\* one video of bob, after a post without a link
TopicOneAuthor == TopicOf(<<PostAt(1, Alice, <<None>>), PostAt(2, Bob, <<Some(HrefWatchB)>>)>>)
\* alice's video, bob's video, a denied video of alice, a post without a video
TopicTwoAuthors ==
    TopicOf(<<PostAt(1, Alice, <<Some(HrefShortA)>>), PostAt(2, Bob, <<Some(HrefWatchB)>>),
              PostAt(3, Alice, <<Some(HrefEmbedC)>>), PostAt(4, Bob, <<Some(HrefExample)>>)>>)

\* the cache files a run may find for a username
InitialFiles ==
    { AbsentFile, CorruptFile, UnreadableFile,
      EntryFile(StartTime - CACHE_TTL_SECS, Some(AddrShielded), FALSE),
      EntryFile(StartTime - CACHE_TTL_SECS - 1, Some(AddrShielded), FALSE),
      EntryFile(StartTime, None, FALSE),
      EntryFile(StartTime + 50, Some(AddrP2pkh), TRUE) }

TIdle ==
    /\ env = [topics |-> {}, json |-> <<>>, html |-> <<>>, fs |-> {}, out |-> {}]
    /\ now = 0
    /\ cache = <<>>
    /\ rpc = "idle"
    /\ task = <<>>
    /\ artifact = None
    /\ rret = None

\* get_with_retries has been called; k is the argument retry_delay is tried on
NewCall(k) ==
    [ attempt |-> 0, sent |-> 0, hist |-> <<>>, slept |-> <<>>, ret |-> None,
      k |-> k, delay |-> None ]

\* how many times the same input is run
Passes == 2

\* no pass has been serialized, no run has returned
RIdle == outs = <<>> /\ finals = <<>> /\ gw = NewCall(0)

TStart ==
    /\ now = StartTime
    /\ rpc = "fetch"
    /\ task = <<>>
    /\ artifact = None
    /\ rret = None

\* one author, every answer of the profile service, every cache file
InitResolve ==
    /\ XIdle /\ PIdle /\ TStart /\ RIdle
    /\ env = [ topics |-> {TopicOneAuthor, NetErr, Resp(500, NoBody), Resp(200, NoBody)},
               json |-> [u \in ProfileHandles |-> JsonResponses],
               html |-> [u \in ProfileHandles |-> HtmlResponses],
               fs |-> {"ok", "failed", "partial"},
               out |-> {"ok", "failed"} ]
    /\ cache \in [CachePaths -> InitialFiles]
    /\ cache[cache_path(Alice)] = AbsentFile

\* two authors, a profile service that answers 500 / 429 / 404 or a profile,
\* an output path that can be written
InitBatch ==
    /\ XIdle /\ PIdle /\ TStart /\ RIdle
    /\ env = [ topics |-> {TopicTwoAuthors, NetErr},
               json |-> [u \in ProfileHandles |->
                            {Resp(500, NoBody), Resp(404, NoBody)}
                            \cup {Resp(200, b) : b \in {x \in JsonBodies : x.cand = Some(AddrShielded)}}],
               html |-> [u \in ProfileHandles |->
                            {Resp(429, NoBody)} \cup {Resp(200, b) : b \in {x \in HtmlBodies : x.cand = None}}],
               fs |-> {"ok", "failed"},
               out |-> {"ok"} ]
    /\ cache \in [CachePaths -> {AbsentFile, EntryFile(StartTime, Some(AddrOrchard), FALSE)}]

\* a step of run()
RunStep ==
    \/ FetchTopic
    \/ SkipPost
    \/ StepAnchor
    \/ EndPost
    \/ CollectUsernames
    \/ StartTask
    \/ LoadCache
    \/ SendJson
    \/ SendHtml
    \/ StoreCache
    \/ MergeAndPersist

TNext == RunStep \/ Tick

\* run() for a topic of one author against every profile-service answer
SpecResolve == InitResolve /\ [][TNext]_vars

\* a step of the resolution stream or of what follows it
ResolveStep == StartTask \/ LoadCache \/ SendJson \/ SendHtml \/ StoreCache \/ MergeAndPersist

\* run() for a topic of two authors; the runtime keeps polling the futures and
\* every request and file operation comes back
SpecBatch == InitBatch /\ [][TNext]_vars /\ WF_vars(ResolveStep)


\* ------------------------------------ run(), started twice from the same state
\* two usernames that differ in one character that is not alphanumeric
Dotted == <<"a",".","b">>
Under == <<"a","_","b">>
SharedHandles == {Dotted, Under}

TopicShared ==
    TopicOf(<<PostAt(1, Dotted, <<Some(HrefShortA)>>), PostAt(2, Under, <<Some(HrefWatchB)>>),
              PostAt(3, Alice, <<Some(HrefExample)>>)>>)

\* a profile service that gives an author the same answer at every request
FixedJson ==
    { {Resp(404, NoBody)}, {Resp(500, NoBody)} }
    \cup { {Resp(200, b)} : b \in {x \in JsonBodies : x.cand = Some(AddrShielded)} }
FixedHtml == { {Resp(200, b)} : b \in {x \in HtmlBodies : x.cand \in {None, Some(AddrOrchard)}} }

\* the files of the usernames' cache paths before a run: none, or a negative
\* entry that stays fresh for the whole run
SharedFiles ==
    [ {cache_path(u) : u \in SharedHandles} -> {AbsentFile, EntryFile(StartTime, None, FALSE)} ]

\* fixed posts, fixed answers per author, fixed cache files (env.files), and
\* cache and output writes that succeed
InitShared ==
    /\ XIdle /\ PIdle /\ TStart /\ RIdle
    /\ env \in { [ topics |-> {TopicShared}, json |-> j, html |-> h,
                   fs |-> {"ok"}, out |-> {"ok"}, files |-> f ] :
                 j \in [SharedHandles -> FixedJson], h \in [SharedHandles -> FixedHtml],
                 f \in SharedFiles }
    /\ cache = env.files

\* run() has returned: its final map is noted, and run() is started again with
\* the clock and the cache files as they were before the first run
Replay ==
    /\ rpc = "done"
    /\ Len(finals) < Passes
    /\ finals' = Append(finals, map)
    /\ IF Len(finals') < Passes
       THEN /\ rpc' = "fetch"
            /\ now' = StartTime
            /\ cache' = env.files
            /\ task' = <<>>
            /\ artifact' = None
            /\ rret' = None
            /\ posts' = <<>>
            /\ denylist' = {}
            /\ pi' = 1
            /\ ai' = 0
            /\ map' = EmptyMap
       ELSE UNCHANGED <<rpc, now, cache, task, artifact, rret, pvars>>
    /\ UNCHANGED <<env, outs, gw, xvars>>

SharedNext == RunStep \/ Tick \/ Replay

\* two runs over the same posts, answers and cache files, each scheduled freely
SpecShared == InitShared /\ [][SharedNext]_vars

\* ------------------------------------------ run() after run(), the cache kept
\* no cache file yet; every answer of the profile service; cache and output
\* writes that land, fail, or fail half way
InitRuns ==
    /\ XIdle /\ PIdle /\ TStart /\ RIdle
    /\ env = [ topics |-> {TopicOneAuthor, NetErr},
               json |-> [u \in ProfileHandles |-> JsonResponses],
               html |-> [u \in ProfileHandles |-> HtmlResponses],
               fs |-> {"ok", "failed", "partial"},
               out |-> {"ok", "failed"} ]
    /\ cache = [q \in CachePaths |-> AbsentFile]

\* run() has returned, with its map or an error; it is called again, at once or
\* a day later, with the cache files as the run left them
RunAgain ==
    /\ rpc \in {"done", "failed"}
    /\ Len(finals) + 1 < Passes
    /\ finals' = Append(finals, map)
    /\ rpc' = "fetch"
    /\ now' \in {now, now + CACHE_TTL_SECS}
    /\ task' = <<>>
    /\ rret' = None
    /\ posts' = <<>>
    /\ denylist' = {}
    /\ pi' = 1
    /\ ai' = 0
    /\ map' = EmptyMap
    /\ UNCHANGED <<env, cache, artifact, outs, gw, xvars>>

RunsNext == RunStep \/ Tick \/ RunAgain

\* a sequence of runs that starts with an empty cache directory
SpecRuns == InitRuns /\ [][RunsNext]_vars

\* ------------------------------------------ run() with more authors than slots
IdD == <<"D","D","D","D","D","D","D","D","D","D","D">>
IdE == <<"E","E","E","E","E","E","E","E","E","E","E">>
IdF == <<"F","F","F","F","F","F","F","F","F","F","F">>
IdG == <<"G","G","G","G","G","G","G","G","G","G","G">>
HrefShort(id) == <<"h","t","t","p","s",":","/","/">> \o S_youtu_be \o <<"/">> \o id

AliceSpaced == <<" ">> \o Alice \o <<" ">>
Blank == <<" "," ">>
PoolHandles == {Alice, Bob, Dotted, Under}

\* six videos: two of alice (her name once with blanks around it), one of each
\* of three more authors, one under a blank username; and a post without a video
TopicPool ==
    TopicOf(<<PostAt(1, Alice, <<Some(HrefShortA)>>), PostAt(2, AliceSpaced, <<Some(HrefWatchB)>>),
              PostAt(3, Bob, <<Some(HrefShort(IdD))>>), PostAt(4, Dotted, <<Some(HrefShort(IdE))>>),
              PostAt(5, Under, <<Some(HrefShort(IdF))>>), PostAt(6, Blank, <<Some(HrefShort(IdG))>>),
              PostAt(7, Alice, <<Some(HrefExample)>>)>>)

InitPool ==
    /\ XIdle /\ PIdle /\ TStart /\ RIdle
    /\ env = [ topics |-> {TopicPool},
               json |-> [u \in PoolHandles |->
                            {Resp(404, NoBody)}
                            \cup {Resp(200, b) : b \in {x \in JsonBodies : x.cand = Some(AddrShielded)}}],
               html |-> [u \in PoolHandles |->
                            {Resp(200, b) : b \in {x \in HtmlBodies : x.cand = None}}],
               fs |-> {"ok"},
               out |-> {"ok"} ]
    /\ cache = [q \in {cache_path(u) : u \in PoolHandles} |-> AbsentFile]

\* run() for a topic of four authors
SpecPool == InitPool /\ [][RunStep]_vars

\* ------------------------------------------------ get_with_retries, alone
\* what a request may end with
RetryResponses ==
    { NetErr, Resp(500, NoBody), Resp(503, NoBody), Resp(429, NoBody), Resp(404, NoBody),
      Resp(403, NoBody), Resp(301, NoBody), Resp(200, NoBody) }

MaxRetryIndex == 7

InitRetry ==
    /\ XIdle /\ PIdle /\ TIdle
    /\ outs = <<>>
    /\ finals = <<>>
    /\ gw \in { NewCall(k) : k \in 0..MaxRetryIndex }

\* one turn of the loop of get_with_retries: the request is sent and ends with
\* r; the loop sleeps retry_delay(attempt) and goes on, or returns r
Attempt ==
    /\ gw.ret = None
    /\ \E r \in RetryResponses :
          gw' = IF RetriesAgain(r, gw.attempt)
                THEN [gw EXCEPT !.sent = @ + 1, !.hist = Append(@, r),
                                !.slept = Append(@, retry_delay(gw.attempt)),
                                !.attempt = @ + 1]
                ELSE [gw EXCEPT !.sent = @ + 1, !.hist = Append(@, r), !.ret = Some(r)]
    /\ UNCHANGED <<outs, finals>>
    /\ UNCHANGED <<xvars, pvars, tvars>>

\* retry_delay(k)
RetryDelay ==
    /\ gw.delay = None
    /\ gw' = [gw EXCEPT !.delay = Some(retry_delay(gw.k))]
    /\ UNCHANGED <<outs, finals>>
    /\ UNCHANGED <<xvars, pvars, tvars>>

RetryNext == Attempt \/ RetryDelay

\* one call of get_with_retries; every request it sends comes back
SpecRetry == InitRetry /\ [][RetryNext]_vars /\ WF_vars(Attempt)

XNext == ExtractVideoId
PNext == SkipPost \/ StepAnchor \/ EndPost

\* extract_video_id applied to every href of GenPool
InitExtract == XInit /\ PIdle /\ TIdle /\ RIdle
SpecExtract == InitExtract /\ [][XNext]_vars
\* process_posts as a fold over every post sequence of PostSeqs
InitPosts == PInit /\ XIdle /\ TIdle /\ RIdle
SpecPosts == InitPosts /\ [][PNext]_vars

\* ========================================== the extraction pass, run twice
\* the orders in which a HashMap of these keys may be iterated: the order is
\* that of the hash table built with the map's own RandomState
IterationOrders(keys) ==
    { f \in [1..Cardinality(keys) -> keys] : \A i, j \in 1..Cardinality(keys) : f[i] = f[j] => i = j }

\* serde_json::to_string_pretty(&map): the entries, one after the other, in
\* the order the map's iterator yields them
ToStringPretty(m, order) == [i \in 1..Len(order) |-> <<order[i], m[order[i]]>>]

\* process_posts has returned; the map is serialized, and the pass starts
\* again on the same posts, topic URL and denylist with a new map
FinishPass ==
    /\ pi = Len(posts) + 1
    /\ Len(outs) < Passes
    /\ \E order \in IterationOrders(DOMAIN map) :
          outs' = Append(outs, [map |-> map, json |-> ToStringPretty(map, order)])
    /\ pi' = 1
    /\ ai' = 0
    /\ map' = EmptyMap
    /\ UNCHANGED <<posts, denylist, finals, gw>>
    /\ UNCHANGED <<xvars, tvars>>

InitRerun == PInit /\ XIdle /\ TIdle /\ RIdle
RNext == SkipPost \/ StepAnchor \/ EndPost \/ FinishPass

\* process_posts and the serialization of its map, twice on the same input
SpecRerun == InitRerun /\ [][RNext]_vars

\* ================================================= properties: dedup fold
PDone == pi = Len(posts) + 1

\* the ids of the links of post p that the scan accepts: the post and the href
\* pass the substring filters, the normalizer yields an id, the id is not denied
AcceptedIds(p, deny) ==
    { Unwrap(extract_video_id(Unwrap(p.anchors[k]))) :
        k \in { j \in 1..Len(p.anchors) :
                  /\ PostFilter(p)
                  /\ IsSome(p.anchors[j])
                  /\ HrefFilter(Unwrap(p.anchors[j]))
                  /\ IsSome(extract_video_id(Unwrap(p.anchors[j])))
                  /\ Unwrap(extract_video_id(Unwrap(p.anchors[j]))) \notin deny } }

\* the ids the normalizer yields for some anchor href of post p
NormalizedIds(p) ==
    { Unwrap(extract_video_id(Unwrap(p.anchors[k]))) :
        k \in { j \in 1..Len(p.anchors) :
                  /\ IsSome(p.anchors[j])
                  /\ IsSome(extract_video_id(Unwrap(p.anchors[j]))) } }

FirstSeenWins ==
    \A id \in DOMAIN map :
        /\ \E k \in 1..Len(posts) : id \in AcceptedIds(posts[k], denylist)
        /\ LET k == CHOOSE i \in 1..Len(posts) :
                        /\ id \in AcceptedIds(posts[i], denylist)
                        /\ \A j \in 1..(i-1) : id \notin AcceptedIds(posts[j], denylist)
           IN  /\ map[id].video_id = id
               /\ map[id].source_post_url = TopicUrl \o <<"/">> \o ToDecimal(posts[k].post_number)
               /\ map[id].username = posts[k].username

EntriesKept == \A id \in DOMAIN map : id \in DOMAIN map' /\ map'[id] = map[id]

\* C1: first-seen-wins. Every entry of the returned map carries the post URL
\* "{topic_url}/{post_number}" and the username of the earliest post (by input
\* order) holding an accepted link to its id, and no step of the fold ever
\* alters or removes an entry that exists.
C1_FirstSeenWins == [](PDone => FirstSeenWins) /\ [][EntriesKept]_vars

\* an id accepted in two posts of different authors, kept under the first author
C1_Witness ==
    /\ PDone
    /\ \E id \in DOMAIN map : \E j, k \in 1..Len(posts) :
          /\ j < k
          /\ id \in AcceptedIds(posts[j], denylist)
          /\ id \in AcceptedIds(posts[k], denylist)
          /\ \A i \in 1..(j-1) : id \notin AcceptedIds(posts[i], denylist)
          /\ posts[j].username # posts[k].username
          /\ map[id].username = posts[j].username

\* C2 (as claimed): the key set of the returned map is the set of distinct ids
\* that extract_video_id yields for some anchor href of some post and that are
\* not in the denylist, and the map's size is their number.
C2_KeysAreNormalizedIds ==
    PDone =>
        LET ids == UNION { NormalizedIds(posts[k]) : k \in 1..Len(posts) } \ denylist
        IN  /\ DOMAIN map = ids
            /\ Cardinality(DOMAIN map) = Cardinality(ids)

\* the anchor the step from this state processes is a link to a denied id
AtDeniedLink ==
    /\ pi <= Len(posts)
    /\ PostFilter(posts[pi])
    /\ ai < Len(posts[pi].anchors)
    /\ IsSome(posts[pi].anchors[ai + 1])
    /\ IsSome(extract_video_id(Unwrap(posts[pi].anchors[ai + 1])))
    /\ Unwrap(extract_video_id(Unwrap(posts[pi].anchors[ai + 1]))) \in denylist

\* C3: denylist invariant. At every point of the fold no denied id is a key of
\* the map, and the step that processes a link to a denied id leaves the whole
\* map as it was.
C3_DenylistInvariant ==
    /\ [](\A id \in denylist : id \notin DOMAIN map)
    /\ [][AtDeniedLink => map' = map]_vars

\* a link to a denied id has just been processed while the map holds an entry
C3_Witness ==
    /\ pi <= Len(posts)
    /\ ai >= 1
    /\ IsSome(posts[pi].anchors[ai])
    /\ extract_video_id(Unwrap(posts[pi].anchors[ai])) # None
    /\ Unwrap(extract_video_id(Unwrap(posts[pi].anchors[ai]))) \in denylist
    /\ map # EmptyMap
    /\ \A id \in denylist : id \notin DOMAIN map

\* ================================================= properties: normalizer
\* an absolute http(s) URL of one of the supported shapes with a well-formed id
SupportedShape(g) ==
    /\ g.scheme.abs
    /\ g.id.valid
    /\ \/ g.host.kind = "youtu.be" /\ g.shape = "short"
       \/ g.host.kind = "youtube" /\ g.shape \in {"watch", "watch_pre"} /\ g.tail # "sub"
       \/ g.host.kind = "youtube" /\ g.shape \in {"shorts", "embed", "live"}

\* C9: for every supported URL shape (youtu.be/<id>, youtube.com host with
\* /watch?v=<id>, /shorts/<id>, /embed/<id>[/...], /live/<id>[?...]) with an
\* 11-character id, extract_video_id returns exactly that id.
C9_SupportedShapeYieldsId ==
    (xdone /\ SupportedShape(gen)) => xresult = Some(gen.id.text)

\* /embed/<id>/extra on a mixed-case youtube.com host has been normalized
C9_Witness ==
    /\ xdone
    /\ SupportedShape(gen)
    /\ gen.shape = "embed"
    /\ gen.tail = "sub"
    /\ gen.host.text # ToLowercase(gen.host.text)
    /\ xresult = Some(gen.id.text)

\* a YouTube link whose path is none of the supported shapes
UnsupportedPath(g) ==
    \/ g.host.kind = "youtu.be" /\ g.shape # "short"
    \/ g.host.kind = "youtube" /\ g.shape \in {"short", "user", "root", "watch_slash", "watch_nov"}

\* C10 (as claimed): extract_video_id returns none for every link whose host is
\* not youtu.be, youtube.com or a subdomain of youtube.com, for every link whose
\* candidate id is not 11 valid characters, and for every YouTube link whose
\* path is none of the supported shapes.
C10_NoneOutsideSupported ==
    xdone =>
        /\ gen.host.kind = "other" => xresult = None
        /\ ~gen.id.valid => xresult = None
        /\ UnsupportedPath(gen) => xresult = None

\* =================================================== properties: resolver
\* the addresses of the inputs that decode, are on the main network and hold
\* no transparent receiver
ValidAddresses == {AddrShielded, AddrOrchard}

\* the endpoint's answer r carried a readable payload; its candidate address
Served(r) == r.kind = "resp" /\ r.status \in 200..299 /\ r.body.ok
ValidCand(r) == Served(r) /\ IsSome(r.body.cand) /\ Unwrap(r.body.cand) \in ValidAddresses
InvalidCand(r) == Served(r) /\ IsSome(r.body.cand) /\ Unwrap(r.body.cand) \notin ValidAddresses
RetryableAnswer(r) == r.kind = "resp" /\ (r.status = 429 \/ r.status \in 500..599)

\* the file the resolver read was an entry of age <= 24h / > 24h at that moment
FreshSeen(t) == t.seen.kind = "entry" /\ t.seen_at - t.seen.cached_at <= 24 * 60 * 60
StaleSeen(t) == t.seen.kind = "entry" /\ t.seen_at - t.seen.cached_at > 24 * 60 * 60

\* what an entry file stores: a tip, or the negative
StoredTip(file) ==
    IF file.tip_unified_address = None THEN None
    ELSE Some([address |-> file.tip_unified_address[1],
               has_transparent |-> file.tip_has_transparent])

\* what the answers of the two profile endpoints amount to
LookupAnswer(t) ==
    IF ValidCand(t.jresp) THEN Some([address |-> Unwrap(t.jresp.body.cand), has_transparent |-> FALSE])
    ELSE IF ValidCand(t.hresp) THEN Some([address |-> Unwrap(t.hresp.body.cand), has_transparent |-> FALSE])
    ELSE None

\* C4: fresh cache hit. A resolution that read an entry of age <= 24h (age
\* exactly 24h included) is over at once: it returns exactly the stored address
\* and transparent flag (no tip for a stored negative), has sent no request to
\* either endpoint, has written nothing, and the file is as it was read.
C4_FreshCacheHit ==
    \A u \in DOMAIN task :
        FreshSeen(task[u]) =>
            /\ task[u].pc = "done"
            /\ task[u].result = StoredTip(task[u].seen)
            /\ task[u].jtries = 0
            /\ task[u].htries = 0
            /\ task[u].pending = None
            /\ task[u].store = ""
            /\ cache[cache_path(u)] = task[u].seen

\* an entry aged exactly the TTL was returned and merged into the written artifact
C4_Witness ==
    /\ rpc = "done"
    /\ Bob \in DOMAIN task
    /\ task[Bob].seen.kind = "entry"
    /\ task[Bob].seen_at - task[Bob].seen.cached_at = 24 * 60 * 60
    /\ task[Bob].result = Some([address |-> AddrShielded, has_transparent |-> FALSE])
    /\ task[Bob].jtries = 0
    /\ IsSome(artifact)
    /\ Unwrap(artifact)[IdB].tip_unified_address = Some(AddrShielded)

\* C5: stale cache entry. A resolution that read an entry of age > 24h goes to
\* the profile endpoint, and what it returns is what the endpoints' answers
\* amount to, never the entry: a stale positive entry followed by a transport
\* failure yields no tip.
C5_StaleEntryNotUsed ==
    \A u \in DOMAIN task :
        StaleSeen(task[u]) =>
            /\ task[u].pc \in {"json", "html", "store", "done"}
            /\ task[u].pc # "json" => task[u].jtries >= 1
            /\ task[u].pc = "done" => task[u].result = LookupAnswer(task[u])

\* a stale positive entry, then three network errors: no tip
C5_Witness ==
    /\ Bob \in DOMAIN task
    /\ task[Bob].pc = "done"
    /\ StaleSeen(task[Bob])
    /\ task[Bob].seen.tip_unified_address = Some(AddrShielded)
    /\ task[Bob].jresp.kind = "neterr"
    /\ task[Bob].jtries = 3
    /\ task[Bob].result = None

\* C6: retry then success. A retryable status (5xx, 429) ends a lookup only at
\* the third attempt, and a lookup whose endpoint, after k < 3 such answers,
\* serves a payload with a valid candidate returns the TipInfo of that address
\* and issues the write of an entry for the handle that carries the address and
\* the time of the resolution; the file holds that entry when the write lands.
C6_RetryThenSuccess ==
    /\ [](\A u \in DOMAIN task :
            /\ RetryableAnswer(task[u].jresp) => task[u].jtries = 3
            /\ RetryableAnswer(task[u].hresp) => task[u].htries = 3
            /\ (ValidCand(task[u].jresp) \/ ValidCand(task[u].hresp)) =>
                  /\ task[u].pc \in {"store", "done"}
                  /\ IsSome(task[u].result)
                  /\ task[u].result = LookupAnswer(task[u])
                  /\ IsSome(task[u].pending)
                  /\ Unwrap(task[u].pending).kind = "entry"
                  /\ StoredTip(Unwrap(task[u].pending)) = task[u].result
                  /\ Unwrap(task[u].pending).cached_at >= task[u].seen_at
                  /\ Unwrap(task[u].pending).cached_at <= now
                  /\ task[u].pc = "done" => task[u].store # ""
                  /\ task[u].store = "ok" => cache[cache_path(u)] = Unwrap(task[u].pending))
    /\ [][\A u \in DOMAIN task :
            (task[u].pc # "store" /\ task'[u].pc = "store")
                => Unwrap(task'[u].pending).cached_at = now]_vars

\* 500, 500, then a profile with a valid address: returned, and on file, stamped
\* after the clock moved
C6_Witness ==
    /\ Bob \in DOMAIN task
    /\ task[Bob].pc = "done"
    /\ task[Bob].jtries = 3
    /\ ValidCand(task[Bob].jresp)
    /\ task[Bob].result = Some([address |-> AddrShielded, has_transparent |-> FALSE])
    /\ task[Bob].store = "ok"
    /\ cache[cache_path(Bob)].kind = "entry"
    /\ cache[cache_path(Bob)].tip_unified_address = Some(AddrShielded)
    /\ cache[cache_path(Bob)].cached_at = StartTime + 1

\* a retryable status was the answer of the third attempt
Exhausted(t) ==
    \/ RetryableAnswer(t.jresp) /\ t.jtries = 3
    \/ RetryableAnswer(t.hresp) /\ t.htries = 3

AllResolved == \A u \in DOMAIN task : task[u].pc = "done"

\* C7: retry exhaustion. An author whose profile endpoint answered a retryable
\* status at every attempt up to the cap gets no tip and no cache write, the
\* file is as it was read; the run does not fail while resolutions are under
\* way, and it goes on until every author is resolved and the artifact is
\* written.
C7_RetryExhaustion ==
    /\ [](\A u \in DOMAIN task :
            Exhausted(task[u]) =>
                /\ task[u].pc = "done"
                /\ task[u].result = None
                /\ task[u].pending = None
                /\ task[u].store = ""
                /\ cache[cache_path(u)] = task[u].seen)
    /\ []((rpc = "failed" /\ task # <<>>) => AllResolved)
    /\ ((\E u \in DOMAIN task : Exhausted(task[u]))
            ~> (AllResolved /\ rpc = "done" /\ artifact = Some(map)))

\* alice's endpoint was exhausted, bob's tip was resolved and is in the artifact
C7_Witness ==
    /\ rpc = "done"
    /\ Alice \in DOMAIN task
    /\ Exhausted(task[Alice])
    /\ task[Alice].jtries = 3
    /\ cache[cache_path(Alice)] = AbsentFile
    /\ task[Bob].result = Some([address |-> AddrShielded, has_transparent |-> FALSE])
    /\ IsSome(artifact)
    /\ Unwrap(artifact)[IdB].tip_unified_address = Some(AddrShielded)
    /\ Unwrap(artifact)[IdA].tip_unified_address = None

\* C8 (as claimed): validation failure is a cached negative. Whenever the
\* candidate found in an author's profile fails validation, the resolution
\* returns no tip and issues the write of a negative entry.
C8_InvalidCandidateCachedNegative ==
    \A u \in DOMAIN task :
        (task[u].pc = "done" /\ (InvalidCand(task[u].jresp) \/ InvalidCand(task[u].hresp))) =>
            /\ task[u].result = None
            /\ IsSome(task[u].pending)
            /\ Unwrap(task[u].pending).tip_unified_address = None

\* ================================================ properties: idempotence
\* C11 (as claimed): idempotence of extraction. Two passes over the same posts,
\* topic URL and denylist produce the same map, and the same bytes when the map
\* is serialized.
C11_Idempotent ==
    Len(outs) = Passes =>
        /\ outs[1].map = outs[2].map
        /\ outs[1].json = outs[2].json

\* ==================================================== properties: run()
\* the keys of the dedup map of the fetched posts
DedupKeys == UNION { AcceptedIds(posts[k], denylist) : k \in 1..Len(posts) }

\* the entry's fields that process_posts sets
SameVideo(e1, e2) ==
    /\ e1.video_id = e2.video_id
    /\ e1.source_post_url = e2.source_post_url
    /\ e1.username = e2.username

\* C12: with the topic fetched and a writable artifact, run fails only at the
\* topic fetch, no step of the resolution phase adds, removes or re-attributes
\* an entry, the phase ends, and run returns the size of the dedup map, which
\* is the number of keys of the artifact, whatever the resolutions' outcomes.
C12_CountWhateverTheResolutions ==
    /\ [](rpc = "failed" => (posts = <<>> /\ task = <<>> /\ artifact = None))
    /\ [](rpc = "done" =>
            /\ rret = Some(Ok(Cardinality(DedupKeys)))
            /\ DOMAIN map = DedupKeys
            /\ FirstSeenWins
            /\ IsSome(artifact)
            /\ DOMAIN Unwrap(artifact) = DedupKeys
            /\ Unwrap(artifact) = map)
    /\ [][rpc = "resolving" =>
            /\ DOMAIN map' = DOMAIN map
            /\ \A id \in DOMAIN map : SameVideo(map'[id], map[id])]_vars
    /\ (rpc = "resolving" ~> rpc = "done")

\* two videos counted and written: one author's lookup was exhausted, the
\* other's ended in a negative that was cached
C12_Witness ==
    /\ rpc = "done"
    /\ rret = Some(Ok(2))
    /\ Exhausted(task[Alice])
    /\ task[Bob].result = None
    /\ task[Bob].store = "ok"
    /\ DOMAIN Unwrap(artifact) = {IdA, IdB}

\* ======================================= properties: the concurrent region
\* C13 (as claimed): order independence. Two runs over the same dedup map, the
\* same initial cache files and the same answers per author end with the same
\* map, however the resolutions were scheduled.
C13_OrderIndependent ==
    Len(finals) = Passes => finals[1] = finals[2]

\* C14 (as claimed): cache records of different authors are independent. The
\* file a resolution reads is the file its author had before the run, no other
\* author's resolution having created or changed it, and the paths of distinct
\* authors differ.
C14_RecordsIndependent ==
    /\ \A u, v \in DOMAIN task : u # v => cache_path(u) # cache_path(v)
    /\ \A u \in DOMAIN task :
          task[u].seen.kind # "unread" => task[u].seen = env.files[cache_path(u)]

\* C15: bounded fan-out. At every moment of a run the resolver invocations that
\* have started and not completed are at most 3, also with four authors.
C15_BoundedFanOut ==
    Cardinality({ u \in DOMAIN task : task[u].pc \notin {"queued", "done"} }) <= 3

\* three invocations are under way and the fourth author waits
C15_Witness ==
    /\ Cardinality({ u \in DOMAIN task : task[u].pc \notin {"queued", "done"} }) = 3
    /\ Cardinality({ u \in DOMAIN task : task[u].pc = "queued" }) = 1
    /\ Cardinality(DOMAIN task) = 4

\* a username without its blanks
NonBlank(username) == SelectSeq(username, LAMBDA c : c # " ")

\* C16: one resolver invocation per distinct non-empty trimmed handle of the
\* dedup map, however many entries share the handle, and none for an empty
\* handle: the invocations are those handles, an invocation that has started
\* never starts again, reads the cache once, and stays as it completed; at the
\* return every one of them has completed.
C16_OncePerHandle ==
    /\ [](rpc \in {"resolving", "done"} =>
            /\ DOMAIN task = { NonBlank(map[id].username) : id \in DOMAIN map } \ { <<>> }
            /\ <<>> \notin DOMAIN task)
    /\ [](rpc = "done" => \A u \in DOMAIN task : task[u].pc = "done")
    /\ [][\A u \in DOMAIN task :
            /\ task[u].pc # "queued" => task'[u].pc # "queued"
            /\ task[u].pc \notin {"queued", "load"} =>
                  (task'[u].pc # "load" /\ task'[u].seen = task[u].seen)
            /\ task[u].pc = "done" => task'[u] = task[u]]_vars

\* alice's two videos, one posted under " alice ", got the tip of her single
\* resolution; the video under the blank username has none
C16_Witness ==
    /\ rpc = "done"
    /\ Cardinality(DOMAIN task) = 4
    /\ map[IdA].tip_unified_address = Some(AddrShielded)
    /\ map[IdB].tip_unified_address = Some(AddrShielded)
    /\ map[IdB].username = AliceSpaced
    /\ task[Alice].jtries = 1
    /\ map[IdG].username = Blank
    /\ map[IdG].tip_unified_address = None

\* ===================================== properties: failures and the cache
\* the lookup ended on a network error or on a status that is neither a
\* success nor 404
FailedAnswer(r) ==
    \/ r.kind = "neterr"
    \/ r.kind = "resp" /\ r.status \notin 200..299 /\ r.status # 404

\* C17: transport failure leaves the cache unchanged. A resolution that ended
\* on a network error or a non-404 non-success status, on the JSON request or
\* on the HTML request, returned no tip and issued no write; the handle's file
\* is what the resolution read, and a read of it now still misses.
C17_TransportFailureKeepsCache ==
    \A u \in DOMAIN task :
        (FailedAnswer(task[u].jresp) \/ FailedAnswer(task[u].hresp)) =>
            /\ task[u].pc = "done"
            /\ task[u].result = None
            /\ task[u].pending = None
            /\ task[u].store = ""
            /\ cache[cache_path(u)] = task[u].seen
            /\ load_cached_tip(cache, u, now) = None

\* a stale positive entry, a 404 for the JSON profile, then 500 three times for
\* the page: the stale entry is still on file
C17_Witness ==
    /\ Bob \in DOMAIN task
    /\ StaleSeen(task[Bob])
    /\ task[Bob].jresp.status = 404
    /\ task[Bob].hresp.status = 500
    /\ task[Bob].htries = 3
    /\ cache[cache_path(Bob)] = EntryFile(StartTime - 86400 - 1, Some(AddrShielded), FALSE)

\* C18 (as claimed): a 404 for the JSON profile is a confirmed negative. The
\* resolution goes to the cache write of a negative entry and returns no tip,
\* with no further profile request.
C18_NotFoundIsNegative ==
    \A u \in DOMAIN task :
        (task[u].jresp.kind = "resp" /\ task[u].jresp.status = 404) =>
            /\ task[u].pc \in {"store", "done"}
            /\ task[u].htries = 0
            /\ task[u].result = None
            /\ IsSome(task[u].pending)
            /\ Unwrap(task[u].pending).tip_unified_address = None

\* ============================================ properties: get_with_retries
\* a response whose status is neither 5xx nor 429
FinalStatus(r) == r.kind = "resp" /\ r.status \notin 500..599 /\ r.status # 429

\* C19: the wrapper retries only after a 5xx status, a 429 or a network error.
\* Any other response is the last one: it is returned, no request follows it,
\* and no sleep: the sleeps are one per earlier answer.
C19_RetryOnlyWhenRetryable ==
    /\ gw.sent = Len(gw.hist)
    /\ \A i \in 1..Len(gw.hist) :
          FinalStatus(gw.hist[i]) =>
              /\ i = Len(gw.hist)
              /\ gw.ret = Some(gw.hist[i])
              /\ gw.sent = i
              /\ Len(gw.slept) = i - 1

\* a 503, retried after 500 ms, then a 404: returned at once, two requests
C19_Witness ==
    /\ gw.hist = <<Resp(503, NoBody), Resp(404, NoBody)>>
    /\ gw.ret = Some(Resp(404, NoBody))
    /\ gw.sent = 2
    /\ gw.slept = <<500>>

\* C20: the wrapper terminates. It sends at most 3 requests, the outcome of the
\* third is returned, nothing is sent after the return, the sleep before retry
\* k is 500 ms * 2^min(k, 5), and the call returns.
C20_RetryTerminates ==
    /\ [](/\ gw.sent <= 3
          /\ gw.sent = 3 => gw.ret = Some(gw.hist[3])
          /\ \A i \in 1..Len(gw.slept) : gw.slept[i] = 500 * (2 ^ (i - 1))
          /\ IsSome(gw.delay) =>
                Unwrap(gw.delay) = 500 * (2 ^ (IF gw.k <= 5 THEN gw.k ELSE 5)))
    /\ [][IsSome(gw.ret) => (gw'.sent = gw.sent /\ gw'.ret = gw.ret)]_vars
    /\ <>(IsSome(gw.ret))

\* network error, 500, network error: the error is returned after sleeps of
\* 500 and 1000 ms; and retry_delay(7) is 16 s
C20_Witness ==
    /\ gw.hist = <<NetErr, Resp(500, NoBody), NetErr>>
    /\ gw.ret = Some(NetErr)
    /\ gw.slept = <<500, 1000>>
    /\ gw.k = 7
    /\ gw.delay = Some(16000)

\* ======================================================= properties: run()
\* the topics the run can fetch with success
FetchedPosts == { r.body.content : r \in { t \in env.topics : t.kind = "resp" /\ IsSuccess(t.status) /\ t.body.ok } }

\* C21: the artifact is written only in a run whose topic fetch succeeded and
\* only once every dispatched resolution is done; a failed topic fetch ends the
\* run with an error, and no resolution, cache write or artifact write comes
\* before or after it.
C21_ArtifactOnlyAfterAll ==
    /\ [][artifact' # artifact =>
            /\ posts \in FetchedPosts
            /\ rpc = "resolving"
            /\ \A u \in DOMAIN task : task[u].pc = "done"]_vars
    /\ [][(rpc = "fetch" /\ rpc' = "failed") =>
            /\ rret' = Some(Err)
            /\ task' = <<>> /\ task = <<>>
            /\ cache' = cache
            /\ artifact' = None]_vars
    /\ [][(rpc \in {"fetch", "failed"}) => UNCHANGED <<cache, task, artifact>>]_vars

\* the topic fetch failed: error returned, bob's corrupt cache file as it was
C21_Witness ==
    /\ rpc = "failed"
    /\ posts = <<>>
    /\ rret = Some(Err)
    /\ task = <<>>
    /\ artifact = None
    /\ cache[cache_path(Bob)] = CorruptFile

\* the TipInfo resolved for the trimmed handle u, if any
ResolvedTip(u) == IF u \in DOMAIN task THEN task[u].result ELSE None

\* C22: the merge pass touches the two tip fields only. The keys stay, video_id,
\* source_post_url and username of every entry stay, and the two tip fields are
\* both set, to the TipInfo of the trimmed username, when there is one, and
\* both unset when there is none.
C22_MergeFrame ==
    [][(rpc = "resolving" /\ rpc' # "resolving") =>
         /\ DOMAIN map' = DOMAIN map
         /\ \A id \in DOMAIN map :
               /\ map'[id].video_id = map[id].video_id
               /\ map'[id].source_post_url = map[id].source_post_url
               /\ map'[id].username = map[id].username
               /\ DOMAIN map'[id] = DOMAIN map[id]
               /\ LET tip == ResolvedTip(Trim(map[id].username))
                  IN  IF IsSome(tip)
                      THEN /\ map'[id].tip_unified_address = Some(Unwrap(tip).address)
                           /\ map'[id].tip_has_transparent = Some(Unwrap(tip).has_transparent)
                      ELSE /\ map'[id].tip_unified_address = None
                           /\ map'[id].tip_has_transparent = None]_vars

\* merged: the entry under " alice " has alice's tip, bob's has none resolved,
\* the entry under the blank username has none
C22_Witness ==
    /\ rpc = "done"
    /\ map[IdB].username = AliceSpaced
    /\ map[IdB].tip_unified_address = Some(AddrShielded)
    /\ map[IdB].tip_has_transparent = Some(FALSE)
    /\ IsSome(task[Dotted].result)
    /\ task[Bob].result = None
    /\ map[IdD].tip_unified_address = None
    /\ map[IdD].tip_has_transparent = None
    /\ map[IdG].username = Blank
    /\ map[IdG].tip_unified_address = None

\* the resolver read a path that held no usable record
MissedOnUnusable(t) == t.seen.kind \in {"absent", "corrupt", "unreadable"}

\* C23: a record that is missing, unreadable or does not parse is a miss and
\* not an error. The resolver goes to the remote lookup, its result is what the
\* two endpoints answered, whichever of the three it read, and the run has not
\* failed for it.
C23_UnusableRecordIsMiss ==
    \A u \in DOMAIN task :
        MissedOnUnusable(task[u]) =>
            /\ task[u].pc \in {"json", "html", "store", "done"}
            /\ task[u].pc # "json" => task[u].jtries >= 1
            /\ task[u].pc = "done" => task[u].result = LookupAnswer(task[u])
            /\ IsSome(task[u].pending) =>
                  StoredTip(Unwrap(task[u].pending)) = LookupAnswer(task[u])
            /\ rpc = "failed" => (\A v \in DOMAIN task : task[v].pc = "done")

\* bob's record did not parse; his profile was fetched, the tip found there is
\* in the artifact
C23_Witness ==
    /\ rpc = "done"
    /\ Bob \in DOMAIN task
    /\ task[Bob].seen = CorruptFile
    /\ task[Bob].jtries = 1
    /\ task[Bob].result = Some(TipInfo(AddrShielded, FALSE))
    /\ IsSome(artifact)
    /\ Unwrap(artifact)[IdB].tip_unified_address = Some(AddrShielded)

\* store_cached_tip was called for the resolution and did not write the entry
StoreFailed(t) == t.store \in {"failed", "partial"}

\* C24: a failed cache write does not abort anything. The resolution is done
\* with the result it resolved remotely, the run is not failed before every
\* resolution is done, a finished run has that result in its artifact, and the
\* author's file is what it was or unparsable: a read of it still misses.
C24_FailedStoreIsIgnored ==
    \A u \in DOMAIN task :
        StoreFailed(task[u]) =>
            /\ task[u].pc = "done"
            /\ task[u].result = LookupAnswer(task[u])
            /\ cache[cache_path(u)] =
                  (IF task[u].store = "failed" THEN task[u].seen ELSE CorruptFile)
            /\ load_cached_tip(cache, u, now) = None
            /\ rpc = "failed" => (\A v \in DOMAIN task : task[v].pc = "done")
            /\ rpc = "done" =>
                  /\ IsSome(artifact)
                  /\ \A id \in DOMAIN map :
                        Trim(map[id].username) = u =>
                            /\ Unwrap(artifact)[id].tip_unified_address =
                                  (IF IsSome(task[u].result)
                                   THEN Some(Unwrap(task[u].result).address) ELSE None)

\* the tip was resolved, the write of its entry failed, the run ended with the
\* tip in the artifact and the stale entry still on file
C24_Witness ==
    /\ rpc = "done"
    /\ Bob \in DOMAIN task
    /\ task[Bob].store = "failed"
    /\ task[Bob].result = Some(TipInfo(AddrOrchard, FALSE))
    /\ Unwrap(artifact)[IdB].tip_unified_address = Some(AddrOrchard)
    /\ cache[cache_path(Bob)] = EntryFile(StartTime - CACHE_TTL_SECS - 1, Some(AddrShielded), FALSE)

\* C25 (as claimed): cache writes are atomic. Whatever happens to a write, the
\* author's file is the complete record that was there when the resolver read
\* it or the complete record the resolver wrote, never anything else.
C25_AtomicCacheWrite ==
    \A u \in DOMAIN task :
        task[u].seen # UnreadFile =>
            \/ cache[cache_path(u)] = task[u].seen
            \/ /\ IsSome(task[u].pending)
               /\ cache[cache_path(u)] = Unwrap(task[u].pending)

\* ================================================ properties: stored addresses
\* the address decodes, for the production network, with no transparent receiver
PassesValidation(a) ==
    LET d == Decode(a)
    IN  d.ok /\ d.network = "Main" /\ d.receivers \cap {"P2pkh", "P2sh"} = {}

\* the tip fields of an output entry: both unset, or a validated address with
\* the flag false
TipFieldsSound(e) ==
    \/ e.tip_unified_address = None /\ e.tip_has_transparent = None
    \/ /\ IsSome(e.tip_unified_address)
       /\ PassesValidation(Unwrap(e.tip_unified_address))
       /\ e.tip_has_transparent = Some(FALSE)

\* the maps run() has produced: the one in hand, the one on disk, the earlier ones
OutputMaps == {map} \cup {finals[i] : i \in 1..Len(finals)} \cup {artifact[i] : i \in 1..Len(artifact)}

\* C26: over runs that start with an empty cache, every address in a cache
\* record and in an output entry has passed validation, every cached flag is
\* false, and the two tip fields of an output entry are set together.
C26_OnlyValidatedAddresses ==
    /\ \A q \in DOMAIN cache :
          cache[q].kind = "entry" =>
              /\ cache[q].tip_has_transparent = FALSE
              /\ IsSome(cache[q].tip_unified_address) =>
                    PassesValidation(Unwrap(cache[q].tip_unified_address))
    /\ \A m \in OutputMaps : \A id \in DOMAIN m : TipFieldsSound(m[id])

\* the second run, a day later: the entry the first run wrote at StartTime + 1
\* is 24h old and a hit, and its address is in the output with the flag false
C26_Witness ==
    /\ Len(finals) = 1
    /\ rpc = "done"
    /\ Bob \in DOMAIN task
    /\ task[Bob].jtries = 0
    /\ task[Bob].seen = EntryFile(StartTime + 1, Some(AddrShielded), FALSE)
    /\ now = StartTime + 1 + CACHE_TTL_SECS
    /\ Unwrap(artifact)[IdB].tip_unified_address = Some(AddrShielded)
    /\ Unwrap(artifact)[IdB].tip_has_transparent = Some(FALSE)

====
